---- MODULE Spec2Model ----
(***************************************************************************)
(* pipeline/build_pipeline.ipynb as a state machine.                       *)
(*                                                                         *)
(* The notebook is a straight-line program: its code cells run top to      *)
(* bottom, one statement at a time, and an exception that no handler       *)
(* catches ends the run.  The platform (compute targets, datasets,         *)
(* published pipelines, schedules) outlives a run; the kernel namespace    *)
(* does not.  A run can be followed by another run on a fresh kernel.      *)
(*                                                                         *)
(* Every remote call has two kinds of outcome: the one its arguments and   *)
(* the platform state determine, and a failure for any other reason (the   *)
(* service is unreachable, the request is rejected), which the model       *)
(* draws nondeterministically.                                             *)
(***************************************************************************)
EXTENDS Integers, Sequences, FiniteSets, TLC

\* ---- bounds ------------------------------------------------------------
\* Number of times the notebook is run against the same workspace.
MaxRuns == 2

\* ---- constants of the notebook ------------------------------------------
aml_compute_target == "cpu-cluster"
vm_size == "STANDARD_D2_V2"
idle_seconds_before_scaledown == 1200
min_nodes == 0
max_nodes == 4
DATASET_NAME == ""
DATASTORE_NAME == ""
DefaultPollingInterval == 5

\* Optional values: None is the empty set, Some(x) the singleton.
None == {}
Some(x) == {x}

\* ---- program positions --------------------------------------------------
\* One position per statement that calls out or binds a name, in cell order.
LocSeq ==
  << "workspace", "lookup", "create", "wait", "attached", "env", "dataset",
     "datastore", "slot", "prep_step", "param", "train_step", "pipeline",
     "validate", "submit", "publish", "sched1", "sched2" >>

Locs == { LocSeq[i] : i \in DOMAIN LocSeq }

LocIndex(l) == CHOOSE i \in DOMAIN LocSeq : LocSeq[i] = l

\* ---- values -------------------------------------------------------------
NoTarget ==
  [ id |-> -1, name |-> "", vm_size |-> "", min_nodes |-> 0, max_nodes |-> 0,
    idle_seconds |-> 0, state |-> "absent" ]

\* Mutant of provisioning_config: the idle time given in minutes, the node bounds swapped.
provisioning_config_mixed ==
  [ vm_size |-> vm_size,
    idle_seconds |-> 20,
    min_nodes |-> max_nodes,
    max_nodes |-> min_nodes ]

\* AmlCompute.provisioning_configuration(...) of the except branch.
provisioning_config ==
  [ vm_size |-> vm_size,
    idle_seconds |-> idle_seconds_before_scaledown,
    min_nodes |-> min_nodes,
    max_nodes |-> max_nodes ]

\* Targets that may already exist under the name before the first run: one
\* sized differently from the notebook's config, one sized like it.
PreExisting ==
  { [ id |-> 0, name |-> aml_compute_target, vm_size |-> "STANDARD_DS3_V2",
      min_nodes |-> 1, max_nodes |-> 2, idle_seconds |-> 600,
      state |-> "Succeeded" ],
    [ id |-> 0, name |-> aml_compute_target, vm_size |-> vm_size,
      min_nodes |-> min_nodes, max_nodes |-> max_nodes,
      idle_seconds |-> idle_seconds_before_scaledown, state |-> "Succeeded" ] }

\* A reference to data in a step's inputs or outputs.
PipelineData(n) == [ kind |-> "PipelineData", name |-> n, mode |-> "" ]
NamedInput(n, m) == [ kind |-> "Dataset", name |-> n, mode |-> m ]

NoStep ==
  [ name |-> "", script_name |-> "", arguments |-> << >>, compute_target |-> -1,
    inputs |-> {}, outputs |-> {}, source_directory |-> "" ]

VARIABLES
  \* the platform
  target,            \* the compute target registered as "cpu-cluster", or NoTarget
  datasetKind,       \* what is registered as DATASET_NAME: "missing", "FileDataset", "TabularDataset"
  experimentRuns,    \* the submitted pipeline runs: [run, validated]
  published,         \* the published pipelines: [id, validated, submitted]
  schedules,         \* the schedules created
  \* the kernel of the current run
  run,               \* number of the current run
  pc,                \* next statement, "done" or "failed"
  bound,             \* names bound in the kernel namespace
  aml_compute,       \* id of the target held by aml_compute
  input_dataset,     \* kind of the object held by input_dataset
  my_inputs,
  data_prep_step,
  train_step,
  training_data,     \* the PipelineData object held by training_data
  pipeline,          \* the steps of the Pipeline object
  validated,         \* pipeline.validate() returned in this run
  published_pipeline,\* id held by published_pipeline
  schedule,          \* id held by schedule
  out,               \* what the run printed
  \* the run's record of calls and exceptions
  calls,             \* how often each position executed in this run
  raised,            \* exceptions raised in this run: [loc, exc]
  caught,            \* exceptions a handler caught in this run: [loc, exc]
  failedAt,          \* position of the uncaught exception, or "none"
  attachLog          \* one entry for each run that printed "... Compute attached"

platformVars == << target, datasetKind, experimentRuns, published, schedules >>
kernelVars ==
  << bound, aml_compute, input_dataset, my_inputs, training_data,
     data_prep_step, train_step, pipeline, validated, published_pipeline, schedule >>
traceVars == << calls, raised, caught, failedAt, attachLog >>
vars == << platformVars, kernelVars, traceVars, run, pc, out >>

\* ---- control flow -------------------------------------------------------
NextLoc(l) ==
  IF LocIndex(l) = Len(LocSeq) THEN "done" ELSE LocSeq[LocIndex(l) + 1]

\* The statement at position l executes.
Executes(l) ==
  /\ pc = l
  /\ calls' = [calls EXCEPT ![l] = @ + 1]

\* The statement returned; control moves to position l.
Return(l) ==
  /\ pc' = l
  /\ UNCHANGED << raised, failedAt >>

\* Mutant of Propagate: the exception is swallowed and the next statement runs.
PropagateSwallowed(l, e) ==
  /\ pc' = NextLoc(l)
  /\ failedAt' = failedAt
  /\ raised' = raised \cup { [loc |-> l, exc |-> e] }

\* An exception raised at position l outside any try block leaves the cell:
\* the run stops there.
Propagate(l, e) ==
  /\ pc' = "failed"
  /\ failedAt' = l
  /\ raised' = raised \cup { [loc |-> l, exc |-> e] }

Bind(names) == bound' = bound \cup names

\* ---- the platform's view of a call --------------------------------------
\* Mutant of AmlComputeFound: the lookup asks for a name nothing is registered under.
AmlComputeFoundOtherName == target # NoTarget /\ target.name = "cpu_cluster"

\* AmlCompute(ws, aml_compute_target) finds a target registered under the name.
AmlComputeFound == target # NoTarget

\* ComputeTarget.create(ws, name, provisioning_config): the target as requested.
ComputeTargetCreate(n, cfg, newId) ==
  [ id |-> newId, name |-> n, vm_size |-> cfg.vm_size,
    min_nodes |-> cfg.min_nodes, max_nodes |-> cfg.max_nodes,
    idle_seconds |-> cfg.idle_seconds, state |-> "Creating" ]

\* ---- ws = Workspace.from_config() ---------------------------------------
WorkspaceFromConfig ==
  /\ Executes("workspace")
  /\ \/ Return("lookup") /\ Bind({"ws"})
     \/ Propagate("workspace", "Exception") /\ UNCHANGED bound
  /\ UNCHANGED << platformVars, aml_compute, input_dataset, my_inputs,
                  training_data, data_prep_step, train_step, pipeline,
                  validated, published_pipeline, schedule, caught, attachLog,
                  run, out >>

\* ---- try: aml_compute = AmlCompute(ws, aml_compute_target) --------------
\* The except clause catches ComputeTargetException and nothing else.
Lookup ==
  /\ Executes("lookup")
  /\ \/ /\ AmlComputeFound
        /\ aml_compute' = target.id
        /\ Bind({"aml_compute_target", "aml_compute"})
        /\ out' = Append(out, "found existing compute target.")
        /\ Return("attached")
        /\ UNCHANGED caught
     \/ /\ ~AmlComputeFound
        /\ raised' = raised \cup { [loc |-> "lookup", exc |-> "ComputeTargetException"] }
        /\ caught' = caught \cup { [loc |-> "lookup", exc |-> "ComputeTargetException"] }
        /\ out' = Append(out, "creating new compute target")
        /\ Bind({"aml_compute_target"})
        /\ pc' = "create"
        /\ UNCHANGED << aml_compute, failedAt >>
     \/ /\ Propagate("lookup", "Exception")
        /\ Bind({"aml_compute_target"})
        /\ UNCHANGED << aml_compute, out, caught >>
  /\ UNCHANGED << platformVars, input_dataset, my_inputs, training_data,
                  data_prep_step, train_step, pipeline, validated,
                  published_pipeline, schedule, attachLog, run >>

\* ---- aml_compute = ComputeTarget.create(ws, name, provisioning_config) --
Create ==
  /\ Executes("create")
  /\ \/ /\ target' = ComputeTargetCreate(aml_compute_target, provisioning_config, run)
        /\ aml_compute' = run
        /\ Bind({"provisioning_config", "aml_compute"})
        /\ Return("wait")
     \/ /\ Propagate("create", "Exception")
        /\ Bind({"provisioning_config"})
        /\ UNCHANGED << target, aml_compute >>
  /\ UNCHANGED << datasetKind, experimentRuns, published, schedules,
                  input_dataset, my_inputs, training_data, data_prep_step,
                  train_step, pipeline, validated, published_pipeline,
                  schedule, caught, attachLog, run, out >>

\* ---- aml_compute.wait_for_completion(..., timeout_in_minutes=20) --------
\* The call returns when provisioning completed.  What it does when the
\* timeout elapses first is the client library's choice, which the notebook
\* does not fix: it may raise, or return with the target still being created.
WaitForCompletion ==
  /\ Executes("wait")
  /\ \/ /\ target' = [target EXCEPT !.state = "Succeeded"]
        /\ Return("attached")
     \/ /\ Return("attached")
        /\ UNCHANGED target
     \/ /\ Propagate("wait", "Exception")
        /\ UNCHANGED target
  /\ UNCHANGED << datasetKind, experimentRuns, published, schedules,
                  kernelVars, caught, attachLog, run, out >>

\* ---- print("Azure Machine Learning Compute attached") -------------------
Attached ==
  /\ Executes("attached")
  /\ out' = Append(out, "Azure Machine Learning Compute attached")
  /\ attachLog' = Append(attachLog,
        [ run |-> run, id |-> aml_compute,
          branch |-> IF calls["create"] > 0 THEN "created" ELSE "found",
          creates |-> calls["create"], waits |-> calls["wait"],
          state |-> target.state ])
  /\ Return("env")
  /\ UNCHANGED << platformVars, kernelVars, caught, run >>

\* ---- run_config / my_env ------------------------------------------------
Env ==
  /\ Executes("env")
  /\ \/ Return("dataset") /\ Bind({"run_config", "my_env"})
     \/ Propagate("env", "Exception") /\ Bind({"run_config"})
  /\ UNCHANGED << platformVars, aml_compute, input_dataset, my_inputs,
                  training_data, data_prep_step, train_step, pipeline,
                  validated, published_pipeline, schedule, caught, attachLog,
                  run, out >>

\* ---- input_dataset = Dataset.get_by_name(ws, DATASET_NAME) --------------
\* A dataset that is not registered is not returned: the lookup raises, or
\* hands back no object (None), which the next cell then dereferences.
GetDataset ==
  /\ Executes("dataset")
  /\ \/ /\ datasetKind # "missing"
        /\ input_dataset' = datasetKind
        /\ Bind({"DATASET_NAME", "DATASTORE_NAME", "input_dataset"})
        /\ Return("datastore")
     \/ /\ datasetKind = "missing"
        /\ input_dataset' = "None"
        /\ Bind({"DATASET_NAME", "DATASTORE_NAME", "input_dataset"})
        /\ Return("datastore")
     \/ /\ datasetKind = "missing"
        /\ Propagate("dataset", "UserErrorException")
        /\ Bind({"DATASET_NAME", "DATASTORE_NAME"})
        /\ UNCHANGED input_dataset
     \/ /\ Propagate("dataset", "Exception")
        /\ Bind({"DATASET_NAME", "DATASTORE_NAME"})
        /\ UNCHANGED input_dataset
  /\ UNCHANGED << platformVars, aml_compute, my_inputs, training_data,
                  data_prep_step, train_step, pipeline, validated,
                  published_pipeline, schedule, caught, attachLog, run, out >>

\* ---- datastore = Datastore(ws, DATASTORE_NAME) --------------------------
GetDatastore ==
  /\ Executes("datastore")
  /\ \/ Return("slot") /\ Bind({"datastore"})
     \/ Propagate("datastore", "Exception") /\ UNCHANGED bound
  /\ UNCHANGED << platformVars, aml_compute, input_dataset, my_inputs,
                  training_data, data_prep_step, train_step, pipeline,
                  validated, published_pipeline, schedule, caught, attachLog,
                  run, out >>

\* ---- training_data = PipelineData(name='training_data', ...) ------------
Slot ==
  /\ Executes("slot")
  /\ training_data' = PipelineData("training_data")
  /\ Bind({"training_data"})
  /\ Return("prep_step")
  /\ UNCHANGED << platformVars, aml_compute, input_dataset, my_inputs,
                  data_prep_step, train_step, pipeline, validated,
                  published_pipeline, schedule, caught, attachLog, run, out >>

\* ---- my_inputs: the isinstance dispatch on input_dataset ----------------
MyInputs(kind) ==
  IF kind = "FileDataset" THEN { NamedInput(DATASET_NAME, "mount") }
  ELSE IF kind = "TabularDataset" THEN { NamedInput(DATASET_NAME, "direct") }
  ELSE {}

\* Mutant of DataPrepStepOf: the step declares no outputs.
DataPrepStepNoOutputs(compute, ins, slot) ==
  [ name |-> "data_prep_step",
    script_name |-> "data_prep.py",
    arguments |-> << "--input_dataset", DATASET_NAME, "--output_folder", slot.name >>,
    compute_target |-> compute,
    inputs |-> ins,
    outputs |-> {},
    source_directory |-> "scripts/01-data-prep" ]

\* ---- data_prep_step = PythonScriptStep(...) -----------------------------
DataPrepStepOf(compute, ins, slot) ==
  [ name |-> "data_prep_step",
    script_name |-> "data_prep.py",
    arguments |-> << "--input_dataset", DATASET_NAME, "--output_folder", slot.name >>,
    compute_target |-> compute,
    inputs |-> ins,
    outputs |-> { slot },
    source_directory |-> "scripts/01-data-prep" ]

\* Mutant of PrepStep: the step is built without reading input_dataset.name.
PrepStepNoDeref ==
  /\ Executes("prep_step")
  /\ my_inputs' = MyInputs(input_dataset)
  /\ data_prep_step' = DataPrepStepOf(aml_compute, my_inputs', training_data)
  /\ Bind({"my_inputs", "data_prep_step"})
  /\ Return("param")
  /\ UNCHANGED << platformVars, aml_compute, input_dataset, training_data,
                  train_step, pipeline, validated, published_pipeline,
                  schedule, caught, attachLog, run, out >>

\* input_dataset.name is read while the arguments are built: with no dataset
\* object that is an AttributeError.
PrepStep ==
  /\ Executes("prep_step")
  /\ \/ /\ input_dataset # "None"
        /\ my_inputs' = MyInputs(input_dataset)
        /\ data_prep_step' = DataPrepStepOf(aml_compute, my_inputs', training_data)
        /\ Bind({"my_inputs", "data_prep_step"})
        /\ Return("param")
     \/ /\ input_dataset = "None"
        /\ my_inputs' = MyInputs(input_dataset)
        /\ Bind({"my_inputs"})
        /\ Propagate("prep_step", "AttributeError")
        /\ UNCHANGED data_prep_step
  /\ UNCHANGED << platformVars, aml_compute, input_dataset, training_data,
                  train_step, pipeline, validated, published_pipeline,
                  schedule, caught, attachLog, run, out >>

\* ---- param1 = PipelineParameter('param1', 1.0) --------------------------
Param ==
  /\ Executes("param")
  /\ Bind({"param1"})
  /\ Return("train_step")
  /\ UNCHANGED << platformVars, aml_compute, input_dataset, my_inputs,
                  training_data, data_prep_step, train_step, pipeline,
                  validated, published_pipeline, schedule, caught, attachLog,
                  run, out >>

\* Mutant of TrainStepOf: the step reads a slot of its own, named differently.
TrainStepOtherSlot(compute, slot) ==
  [ name |-> "training_step",
    script_name |-> "train.py",
    arguments |-> << "--training_data", "train_data", "--param1", "param1" >>,
    compute_target |-> compute,
    inputs |-> { PipelineData("train_data") },
    outputs |-> {},
    source_directory |-> "scripts/02-train" ]

\* ---- train_step = PythonScriptStep(...) ---------------------------------
TrainStepOf(compute, slot) ==
  [ name |-> "training_step",
    script_name |-> "train.py",
    arguments |-> << "--training_data", slot.name, "--param1", "param1" >>,
    compute_target |-> compute,
    inputs |-> { slot },
    outputs |-> {},
    source_directory |-> "scripts/02-train" ]

TrainStep ==
  /\ Executes("train_step")
  /\ train_step' = TrainStepOf(aml_compute, training_data)
  /\ Bind({"train_step"})
  /\ Return("pipeline")
  /\ UNCHANGED << platformVars, aml_compute, input_dataset, my_inputs,
                  training_data, data_prep_step, pipeline, validated,
                  published_pipeline, schedule, caught, attachLog, run, out >>

\* ---- pipeline = Pipeline(workspace=ws, steps=[data_prep_step, train_step])
PipelineSteps(prep, train) == << prep, train >>

DefinePipeline ==
  /\ Executes("pipeline")
  /\ pipeline' = PipelineSteps(data_prep_step, train_step)
  /\ Bind({"pipeline"})
  /\ Return("validate")
  /\ UNCHANGED << platformVars, aml_compute, input_dataset, my_inputs,
                  training_data, data_prep_step, train_step, validated,
                  published_pipeline, schedule, caught, attachLog, run, out >>

\* ---- the pipeline graph (section 4.1 of the design) ---------------------
\* An edge from step A to step B when B declares as input a slot that A
\* declares as output.
Edges(steps) ==
  { << steps[p[1]].name, steps[p[2]].name >> :
      p \in { q \in (DOMAIN steps) \X (DOMAIN steps) :
                \E d \in steps[q[2]].inputs :
                   d.kind = "PipelineData" /\ d \in steps[q[1]].outputs } }

\* One more step along the edges of R.
Compose(R) ==
  R \cup { << q[1][1], q[2][2] >> : q \in { r \in R \X R : r[1][2] = r[2][1] } }

RECURSIVE Closure(_, _)
Closure(R, n) == IF n = 0 THEN R ELSE Closure(Compose(R), n - 1)

Acyclic(steps) == \A e \in Closure(Edges(steps), Len(steps)) : e[1] # e[2]

\* Declared input slots that no step of the pipeline produces.
UnresolvedInputs(steps) ==
  { d \in UNION { steps[i].inputs : i \in DOMAIN steps } :
      /\ d.kind = "PipelineData"
      /\ ~ \E i \in DOMAIN steps : d \in steps[i].outputs }

\* What validation rejects: an input slot without a producing step, a step
\* without a compute target.
ValidationErrors(steps) ==
  (IF UnresolvedInputs(steps) # {} THEN { "input slot has no producing step" } ELSE {})
    \cup
  (IF \E i \in DOMAIN steps : steps[i].compute_target = -1
     THEN { "compute target unset" } ELSE {})

\* Mutant of Validate: the pipeline goes on to submission without being validated.
ValidateSkipped ==
  /\ Executes("validate")
  /\ Return("submit")
  /\ UNCHANGED << platformVars, kernelVars, caught, attachLog, run, out >>

\* ---- pipeline.validate() ------------------------------------------------
Validate ==
  /\ Executes("validate")
  /\ \/ IF ValidationErrors(pipeline) = {}
          THEN validated' = TRUE /\ Return("submit")
          ELSE Propagate("validate", "ConfigurationError") /\ UNCHANGED validated
     \/ Propagate("validate", "Exception") /\ UNCHANGED validated
  /\ UNCHANGED << platformVars, bound, aml_compute, input_dataset, my_inputs,
                  training_data, data_prep_step, train_step, pipeline,
                  published_pipeline, schedule, caught, attachLog, run, out >>

\* ---- pipeline.submit(experiment_name="pipeline-test", ...) --------------
Submit ==
  /\ Executes("submit")
  /\ \/ /\ experimentRuns' = experimentRuns \cup { [run |-> run, validated |-> validated] }
        /\ Return("publish")
     \/ /\ Propagate("submit", "Exception")
        /\ UNCHANGED experimentRuns
  /\ UNCHANGED << target, datasetKind, published, schedules, kernelVars,
                  caught, attachLog, run, out >>

\* ---- published_pipeline = pipeline.publish() ----------------------------
\* The platform gives each published pipeline a fresh id.
Publish ==
  /\ Executes("publish")
  /\ \/ /\ published' = published \cup
             { [ id |-> run, validated |-> validated,
                 submitted |-> \E e \in experimentRuns : e.run = run ] }
        /\ published_pipeline' = run
        /\ Bind({"published_pipeline"})
        /\ Return("sched1")
     \/ /\ Propagate("publish", "Exception")
        /\ UNCHANGED << published, published_pipeline, bound >>
  /\ UNCHANGED << target, datasetKind, experimentRuns, schedules, aml_compute,
                  input_dataset, my_inputs, training_data, data_prep_step,
                  train_step, pipeline, validated, schedule, caught,
                  attachLog, run, out >>

\* ---- schedules ----------------------------------------------------------
\* ScheduleRecurrence(frequency="Day", interval=2, hours=[22], minutes=[30])
recurrence ==
  [ frequency |-> "Day", interval |-> 2, hours |-> << 22 >>, minutes |-> << 30 >> ]

\* Schedule.create(...): the schedule holds the trigger it was given; a
\* datastore trigger polls every 5 minutes unless told otherwise.
ScheduleCreate(newId, pipelineId, rec, ds) ==
  [ id |-> newId,
    name |-> "My_Schedule",
    pipeline_id |-> pipelineId,
    experiment_name |-> "Schedule_Run",
    recurrence |-> rec,
    datastore |-> ds,
    polling_interval |-> IF ds # None THEN Some(DefaultPollingInterval) ELSE None,
    path_on_datastore |-> None,
    description |-> "Schedule Run" ]

NextScheduleId == Cardinality(schedules) + 1

\* Option 1: Schedule.create(..., recurrence=recurrence, ...)
Option1Schedule == ScheduleCreate(NextScheduleId, published_pipeline, Some(recurrence), None)

\* Mutant of Option2Schedule: the datastore schedule is given the recurrence too.
Option2ScheduleWithRecurrence ==
  ScheduleCreate(NextScheduleId, published_pipeline, Some(recurrence), Some(DATASTORE_NAME))

\* Option 2: Schedule.create(..., datastore=datastore, ...)
Option2Schedule == ScheduleCreate(NextScheduleId, published_pipeline, None, Some(DATASTORE_NAME))

ScheduleOnRecurrence ==
  /\ Executes("sched1")
  /\ \/ /\ schedules' = schedules \cup { Option1Schedule }
        /\ schedule' = Option1Schedule.id
        /\ Bind({"recurrence", "schedule"})
        /\ out' = Append(out, "Created schedule with id: " \o ToString(Option1Schedule.id))
        /\ Return("sched2")
     \/ /\ Propagate("sched1", "Exception")
        /\ Bind({"recurrence"})
        /\ UNCHANGED << schedules, schedule, out >>
  /\ UNCHANGED << target, datasetKind, experimentRuns, published, aml_compute,
                  input_dataset, my_inputs, training_data, data_prep_step,
                  train_step, pipeline, validated, published_pipeline,
                  caught, attachLog, run >>

ScheduleOnDatastoreChange ==
  /\ Executes("sched2")
  /\ \/ /\ schedules' = schedules \cup { Option2Schedule }
        /\ schedule' = Option2Schedule.id
        /\ out' = Append(out, "Created schedule with id: " \o ToString(Option2Schedule.id))
        /\ Return("done")
     \/ /\ Propagate("sched2", "Exception")
        /\ UNCHANGED << schedules, schedule, out >>
  /\ UNCHANGED << target, datasetKind, experimentRuns, published, bound,
                  aml_compute, input_dataset, my_inputs, training_data,
                  data_prep_step, train_step, pipeline, validated,
                  published_pipeline, caught, attachLog, run >>

\* ---- a fresh kernel -----------------------------------------------------
KernelInit ==
  /\ pc = "workspace"
  /\ bound = {}
  /\ aml_compute = -1
  /\ input_dataset = "unbound"
  /\ my_inputs = {}
  /\ training_data = PipelineData("")
  /\ data_prep_step = NoStep
  /\ train_step = NoStep
  /\ pipeline = << >>
  /\ validated = FALSE
  /\ published_pipeline = -1
  /\ schedule = -1
  /\ out = << >>
  /\ calls = [ l \in Locs |-> 0 ]
  /\ raised = {}
  /\ caught = {}
  /\ failedAt = "none"

\* The notebook is run again, from the top, on a restarted kernel.
NewRun ==
  /\ pc \in { "done", "failed" }
  /\ run < MaxRuns
  /\ run' = run + 1
  /\ pc' = "workspace"
  /\ bound' = {}
  /\ aml_compute' = -1
  /\ input_dataset' = "unbound"
  /\ my_inputs' = {}
  /\ training_data' = PipelineData("")
  /\ data_prep_step' = NoStep
  /\ train_step' = NoStep
  /\ pipeline' = << >>
  /\ validated' = FALSE
  /\ published_pipeline' = -1
  /\ schedule' = -1
  /\ out' = << >>
  /\ calls' = [ l \in Locs |-> 0 ]
  /\ raised' = {}
  /\ caught' = {}
  /\ failedAt' = "none"
  /\ UNCHANGED << platformVars, attachLog >>

Init ==
  /\ target \in { NoTarget } \cup PreExisting
  /\ datasetKind \in { "missing", "FileDataset", "TabularDataset" }
  /\ experimentRuns = {}
  /\ published = {}
  /\ schedules = {}
  /\ run = 1
  /\ attachLog = << >>
  /\ KernelInit

Next ==
  \/ WorkspaceFromConfig
  \/ Lookup
  \/ Create
  \/ WaitForCompletion
  \/ Attached
  \/ Env
  \/ GetDataset
  \/ GetDatastore
  \/ Slot
  \/ PrepStep
  \/ Param
  \/ TrainStep
  \/ DefinePipeline
  \/ Validate
  \/ Submit
  \/ Publish
  \/ ScheduleOnRecurrence
  \/ ScheduleOnDatastoreChange
  \/ NewRun

Spec == Init /\ [][Next]_vars

\* ======================================================================
\* Properties
\* ======================================================================

SchedulesOf(pid) == { s \in schedules : s.pipeline_id = pid }

Variant(s) ==
  IF s.recurrence # None /\ s.datastore = None THEN "Recurrence"
  ELSE IF s.recurrence = None /\ s.datastore # None THEN "StorageTrigger"
  ELSE "neither"

SubmittedInRun(r) == \E e \in experimentRuns : e.run = r

NoOtherFailure == \A r \in raised : r.exc # "Exception"

\* C1: a published pipeline has at most one schedule bound to its id, the
\* recurrence schedule or the datastore-change schedule, never both.
C1_AtMostOneSchedule ==
  \A p \in published : Cardinality(SchedulesOf(p.id)) <= 1

\* C2: every run that attaches the compute target after an earlier run did
\* gets the same target as that run, through the lookup branch, with no call
\* of ComputeTarget.create and no wait for provisioning.
C2_ProvisioningIdempotent ==
  \A i, j \in DOMAIN attachLog :
    i < j =>
      /\ attachLog[j].id = attachLog[i].id
      /\ attachLog[j].branch = "found"
      /\ attachLog[j].creates = 0
      /\ attachLog[j].waits = 0

\* C2 witness: the first run provisioned the target, the second attached it.
C2_Witness ==
  /\ Len(attachLog) = 2
  /\ attachLog[1].branch = "created"
  /\ attachLog[2].run = 2

\* C3 as claimed: when the named dataset does not exist and nothing else
\* went wrong, the run fails in pipeline.validate() with a ConfigurationError.
C3_ValidationRejectsMissingDataset ==
  (datasetKind = "missing" /\ pc = "failed" /\ NoOtherFailure) =>
    /\ failedAt = "validate"
    /\ [loc |-> "validate", exc |-> "ConfigurationError"] \in raised

\* C3 amended: a dataset that does not exist fails the run at the dataset
\* lookup or at the construction of the data-prep step, before the pipeline
\* is built, so validation is never reached; validation returns only for a
\* pipeline whose input slots all have a producing step and whose steps have
\* a compute target; and a run that failed in or before validation has not
\* submitted the pipeline.
C3_MissingDatasetFailsBeforeValidation ==
  /\ datasetKind = "missing" =>
       /\ calls["pipeline"] = 0 /\ calls["validate"] = 0 /\ ~validated
       /\ experimentRuns = {}
       /\ (pc = "failed" /\ NoOtherFailure) => failedAt \in { "dataset", "prep_step" }
  /\ validated => ValidationErrors(pipeline) = {}
  /\ (pc = "failed" /\ LocIndex(failedAt) <= LocIndex("validate")) =>
       /\ calls["submit"] = 0
       /\ ~SubmittedInRun(run)

\* C3 witness: the dataset is missing and the run stopped at the lookup.
C3_Witness ==
  /\ datasetKind = "missing"
  /\ pc = "failed"
  /\ failedAt = "dataset"
  /\ [loc |-> "dataset", exc |-> "UserErrorException"] \in raised

\* C4: the slot the data-prep step writes is the very object the train step
\* reads, named training_data, so no input slot of the pipeline lacks a
\* producer; and validation has returned only with the names equal.
C4_SlotHandoff ==
  /\ "train_step" \in bound =>
       /\ data_prep_step.outputs = { training_data }
       /\ train_step.inputs = { training_data }
       /\ training_data.name = "training_data"
  /\ "pipeline" \in bound => UnresolvedInputs(pipeline) = {}
  /\ validated =>
       { d.name : d \in pipeline[2].inputs } = { d.name : d \in pipeline[1].outputs }

\* C4 witness: validation returned for the two steps.
C4_Witness ==
  /\ validated
  /\ pc = "submit"
  /\ Len(pipeline) = 2

\* C5: the graph of the pipeline's steps has the single edge
\* data_prep_step -> training_step and no cycle.
C5_SingleEdge ==
  "pipeline" \in bound =>
    /\ Edges(pipeline) = { << "data_prep_step", "training_step" >> }
    /\ << "training_step", "data_prep_step" >> \notin Edges(pipeline)
    /\ Acyclic(pipeline)

\* C5 witness: the pipeline object was built from the two steps.
C5_Witness ==
  /\ "pipeline" \in bound
  /\ pc = "validate"
  /\ << pipeline[1].name, pipeline[2].name >> = << "data_prep_step", "training_step" >>

\* C6: the only exception a handler catches is the ComputeTargetException of
\* the compute-target lookup, which leads to provisioning; every other
\* exception stops the run at the statement that raised it, no statement is
\* executed twice, and no later statement has executed.
C6_OnlyLookupFailureHandled ==
  /\ caught \subseteq { [loc |-> "lookup", exc |-> "ComputeTargetException"] }
  /\ caught # {} => (pc = "create" \/ calls["create"] = 1)
  /\ \A r \in raised \ caught : pc = "failed" /\ failedAt = r.loc
  /\ \A l \in Locs : calls[l] <= 1
  /\ pc = "failed" =>
       /\ failedAt \in Locs
       /\ calls[failedAt] = 1
       /\ \A l \in Locs : LocIndex(l) > LocIndex(failedAt) => calls[l] = 0
       /\ failedAt \in { "lookup", "create", "wait" } =>
            \A i \in DOMAIN out : out[i] # "Azure Machine Learning Compute attached"
       /\ failedAt = "validate" => ~SubmittedInRun(run)
       /\ failedAt \in { "validate", "submit" } => published_pipeline = -1
       /\ failedAt \in { "validate", "submit", "publish" } =>
            \A s \in schedules : s.pipeline_id # run

\* C6 witness: the lookup failure was handled, and a later failure ended the run.
C6_Witness ==
  /\ caught # {}
  /\ pc = "failed"
  /\ failedAt = "submit"

\* C8: a target the notebook created has the bounds of the provisioning
\* config; a target that exists is never created again nor resized.
C8_CreatedWithConfig ==
  /\ [](target.id > 0 =>
          /\ target.vm_size = "STANDARD_D2_V2"
          /\ target.min_nodes = 0
          /\ target.max_nodes = 4
          /\ target.idle_seconds = 1200)
  /\ [][ /\ target # NoTarget =>
              [target' EXCEPT !.state = ""] = [target EXCEPT !.state = ""]
         /\ (target = NoTarget /\ target' # NoTarget) =>
              (pc = "create" /\ target'.name = "cpu-cluster") ]_vars

\* C8 witness: the notebook created the target, and a later run found it.
C8_Witness ==
  /\ target.id = 1
  /\ run = 2
  /\ pc = "env"
  /\ calls["create"] = 0

\* C9: every schedule is of exactly one variant: the one made with recurrence=
\* has no datastore, path or polling interval; the one made with datastore=
\* has no recurrence.
C9_VariantsExclusive ==
  /\ \A s \in schedules :
       /\ Variant(s) \in { "Recurrence", "StorageTrigger" }
       /\ s.recurrence # None =>
            s.datastore = None /\ s.path_on_datastore = None /\ s.polling_interval = None
       /\ s.datastore # None => s.recurrence = None
  /\ pc = "sched2" => \E s \in schedules : s.id = schedule /\ Variant(s) = "Recurrence"
  /\ pc = "done" => \E s \in schedules : s.id = schedule /\ Variant(s) = "StorageTrigger"

\* C9 witness: both scheduling cells have run.
C9_Witness ==
  /\ pc = "done"
  /\ \E s \in schedules : Variant(s) = "Recurrence"
  /\ \E s \in schedules : Variant(s) = "StorageTrigger"

\* C10: a submitted pipeline was validated, a published pipeline was
\* validated and submitted, and every schedule is bound to the id of a
\* published pipeline.
C10_LifecycleOrder ==
  /\ \A e \in experimentRuns : e.validated
  /\ \A p \in published : p.validated /\ p.submitted
  /\ \A s \in schedules : \E p \in published : p.id = s.pipeline_id
  /\ calls["submit"] = 1 => validated
  /\ calls["publish"] = 1 => validated /\ calls["submit"] = 1
  /\ calls["sched1"] = 1 => "published_pipeline" \in bound
  /\ calls["sched2"] = 1 => "published_pipeline" \in bound

\* C10 witness: a run went through validate, submit, publish and both schedules.
C10_Witness ==
  /\ pc = "done"
  /\ schedules # {}
  /\ published # {}

====
